---- MODULE Spec2Model ----
(***************************************************************************)
(* TxtToYoutubeMusic: main() reads the song queries, initializes the       *)
(* client, creates the playlist and runs add_songs_to_playlist, which for  *)
(* each query calls search_song and then add_item_to_playlist (409 retry   *)
(* with linear backoff, in-run duplicate registry unique_songs).           *)
(*                                                                         *)
(* The remote service (yt.search, yt.create_playlist,                      *)
(* yt.add_playlist_items) is the environment: each call nondeterministically*)
(* returns one of its possible answers or raises.                          *)
(*                                                                         *)
(* The four result lists hold the 1-based input position of the query that *)
(* the code appends (the appended text is song_queries[position]).         *)
(*                                                                         *)
(* calls and sleeps record what the current loop iteration did to the      *)
(* remote service and to the clock; search_count and add_count count the   *)
(* remote calls of the whole run; resolved and confirmed keep, per input   *)
(* position, what search_song gave and whether the insertion was answered  *)
(* with STATUS_SUCCEEDED.                                                  *)
(*                                                                         *)
(* SpecSearch runs search_song on its own, in both modes, and records in   *)
(* searches what was submitted to yt.search and what it answered, and in   *)
(* result what search_song returned.                                       *)
(***************************************************************************)
EXTENDS Integers, Sequences, FiniteSets

VARIABLES
    pc,                   \* position of the process in main / add_songs_to_playlist
    song_queries,         \* list returned by read_song_queries
    allow_duplicates,     \* add_songs_to_playlist argument
    max_retries,          \* add_songs_to_playlist argument
    retry_delay,          \* add_songs_to_playlist argument
    perfect_match,        \* search_song argument
    playlist_id,          \* id returned by create_playlist ("" before)
    idx,                  \* enumerate index of the for loop (0 before the loop)
    video_id,             \* result.get('videoId') of the current query
    retries,              \* retries argument of the current add_item_to_playlist call
    status,               \* status returned by add_item_to_playlist
    unique_songs,         \* registry of video ids
    successful_additions, \* result bucket
    failed_additions,     \* result bucket
    not_found,            \* result bucket
    duplicates,           \* result bucket
    exit_code,            \* -1 while running, 1 after sys.exit(1), 0 after the report
    search_count,         \* number of yt.search calls issued so far
    add_count,            \* number of yt.add_playlist_items calls issued so far
    resolved,             \* per processed position: the videoId search_song gave
    confirmed,            \* positions whose insertion was answered STATUS_SUCCEEDED
    calls,                \* yt.add_playlist_items calls of the current iteration
    sleeps,               \* time.sleep calls of the current iteration
    raised,               \* which call failed fatally or raised ("" for none)
    registry_at_call,     \* unique_songs as passed to the current add_item_to_playlist
    searches,             \* SpecSearch: the yt.search calls of search_song
    result                \* SpecSearch: what search_song returned

vars == <<pc, song_queries, allow_duplicates, max_retries, retry_delay,
          perfect_match, playlist_id, idx, video_id, retries, status,
          unique_songs, successful_additions, failed_additions, not_found,
          duplicates, exit_code, search_count, add_count, resolved,
          confirmed, calls, sleeps, raised, registry_at_call, searches,
          result>>

----------------------------------------------------------------------------
\* Bounds of the model.
MaxQueries == 2
MaxRetries == 2
MaxResults == 1
MaxSearchResults == 2      \* SpecSearch

\* Default of add_songs_to_playlist, the value main runs with.
DEFAULT_RETRY_DELAY == 6

VideoIds == {"v1", "v2"}
NoVideoId == ""              \* videoId missing or empty: `not video_id`
QueryTexts == {"Song A"}
Titles == {"Song A", "SONG A", "Song B"}
RetryDelays == {DEFAULT_RETRY_DELAY}

\* str.lower() on the texts of the model.
Lower(s) ==
    CASE s = "Song A" -> "song a"
      [] s = "SONG A" -> "song a"
      [] s = "Song B" -> "song b"
      [] OTHER -> s

\* A search result entry, and search_song's None.
ResultEntries == [videoId : VideoIds \cup {NoVideoId}, title : Titles]
None == [videoId |-> "None", title |-> "None"]
\* search_song has not returned (yet): the songs search decided nothing.
Fallback == [videoId |-> "Fallback", title |-> "Fallback"]

RECURSIVE SeqsUpTo(_, _)
SeqsUpTo(S, k) ==
    IF k = 0 THEN {<<>>}
    ELSE LET shorter == SeqsUpTo(S, k - 1)
         IN  shorter \cup {Append(s, e) : s \in {t \in shorter : Len(t) = k - 1}, e \in S}

\* What yt.search can return.
ResultLists == SeqsUpTo(ResultEntries, MaxResults)
SearchResultLists == SeqsUpTo(ResultEntries, MaxSearchResults)

\* What yt.add_playlist_items can do: return a response or raise.
STATUS_SUCCEEDED == "STATUS_SUCCEEDED"
OTHER_RESPONSE == "OTHER_RESPONSE"     \* non-empty, no succeeded status
EMPTY_RESPONSE == "EMPTY_RESPONSE"     \* None or empty dict
HTTP_409 == "HTTP 409: Conflict"       \* exception whose text holds it
OTHER_ERROR == "OTHER_ERROR"           \* any other exception
AddResponses == {STATUS_SUCCEEDED, OTHER_RESPONSE, EMPTY_RESPONSE, HTTP_409, OTHER_ERROR}
Returned == {STATUS_SUCCEEDED, OTHER_RESPONSE, EMPTY_RESPONSE}

total_queries == Len(song_queries)

----------------------------------------------------------------------------
Init ==
    /\ pc = "read"
    /\ song_queries \in SeqsUpTo(QueryTexts, MaxQueries)
    /\ allow_duplicates \in BOOLEAN
    /\ max_retries \in 0..MaxRetries
    /\ retry_delay \in RetryDelays
    /\ perfect_match = FALSE
    /\ playlist_id = ""
    /\ idx = 0
    /\ video_id = NoVideoId
    /\ retries = 0
    /\ status = ""
    /\ unique_songs = {}
    /\ successful_additions = <<>>
    /\ failed_additions = <<>>
    /\ not_found = <<>>
    /\ duplicates = <<>>
    /\ exit_code = -1
    /\ search_count = 0
    /\ add_count = 0
    /\ resolved = <<>>
    /\ confirmed = {}
    /\ calls = <<>>
    /\ sleeps = <<>>
    /\ raised = ""
    /\ registry_at_call = {}
    /\ searches = <<>>
    /\ result = Fallback

\* sys.exit(1) after `what` failed.
Exit1(what) ==
    /\ pc' = "exit"
    /\ exit_code' = 1
    /\ raised' = what

config == <<song_queries, allow_duplicates, max_retries, retry_delay, perfect_match>>
buckets == <<successful_additions, failed_additions, not_found, duplicates>>
search_log == <<searches, result>>
logs == <<search_count, add_count, resolved, confirmed, calls, sleeps,
          registry_at_call, search_log>>

\* main: read_song_queries returned; an empty list is fatal.
ReadSongQueries ==
    /\ pc = "read"
    /\ IF song_queries = <<>>
       THEN Exit1("read_song_queries")
       ELSE pc' = "initialize" /\ UNCHANGED <<exit_code, raised>>
    /\ UNCHANGED <<config, playlist_id, idx, video_id, retries, status,
                   unique_songs, buckets, logs>>

\* main: initialize_ytmusic either returns a client or ends in sys.exit(1).
InitializeYtmusic ==
    /\ pc = "initialize"
    /\ \E ok \in BOOLEAN :
         IF ok THEN pc' = "create" /\ UNCHANGED <<exit_code, raised>>
         ELSE Exit1("initialize_ytmusic")
    /\ UNCHANGED <<config, playlist_id, idx, video_id, retries, status,
                   unique_songs, buckets, logs>>

\* Variant: the `if not playlist_id` check is missing.
PlaylistCreatedUnchecked(outcome) == outcome # "raise"

\* create_playlist: the call returned (did not raise) and `if not playlist_id`
\* did not exit.
PlaylistCreated(outcome) == outcome = "id"

\* create_playlist: yt.create_playlist returns an id, returns nothing, or raises.
CreatePlaylist ==
    /\ pc = "create"
    /\ \E outcome \in {"id", "empty", "raise"} :
         IF PlaylistCreated(outcome)
         THEN /\ playlist_id' = (IF outcome = "id" THEN "PL" ELSE "")
              /\ pc' = "loop"
              /\ UNCHANGED <<exit_code, raised>>
         ELSE /\ Exit1("create_playlist")
              /\ UNCHANGED playlist_id
    /\ UNCHANGED <<config, idx, video_id, retries, status, unique_songs,
                   buckets, logs>>

----------------------------------------------------------------------------
\* search_song, perfect mode: the first result whose lowered title equals the
\* lowered query, None when there is none.
RECURSIVE FirstMatch(_, _)
FirstMatch(results, query) ==
    IF results = <<>> THEN None
    ELSE IF Lower(Head(results).title) = Lower(query) THEN Head(results)
    ELSE FirstMatch(Tail(results), query)

\* Variant: the titles are compared as they are.
RECURSIVE FirstMatchCaseSensitive(_, _)
FirstMatchCaseSensitive(results, query) ==
    IF results = <<>> THEN None
    ELSE IF Head(results).title = query THEN Head(results)
    ELSE FirstMatchCaseSensitive(Tail(results), query)

\* search_song, perfect mode: the scan of a result list.
PerfectMatch(results, query) == FirstMatch(results, query)

\* The text submitted to yt.search.
formatted_query(query, perfect) ==
    IF perfect THEN "\"" \o query \o "\"" ELSE query

\* Variant: the last result instead of the first.
SongsOutcomeLast(results, query, perfect) ==
    IF results = <<>> THEN Fallback
    ELSE IF perfect
    THEN (IF PerfectMatch(results, query) = None THEN Fallback
          ELSE PerfectMatch(results, query))
    ELSE results[Len(results)]

\* search_song after the songs search: the result it returns, or Fallback
\* when it goes on to the videos search.
SongsOutcome(results, query, perfect) ==
    IF results = <<>> THEN Fallback
    ELSE IF perfect
    THEN (IF PerfectMatch(results, query) = None THEN Fallback
          ELSE PerfectMatch(results, query))
    ELSE results[1]

\* search_song after the videos search: the result it returns.
VideosOutcome(video_results, query, perfect) ==
    IF video_results = <<>> THEN None
    ELSE IF perfect THEN PerfectMatch(video_results, query)
    ELSE video_results[1]

\* Variant: insert(0, ...) instead of append.
PrependTo(bucket, pos) == <<pos>> \o bucket

\* list.append
AppendTo(bucket, pos) == Append(bucket, pos)

\* Variant: the no-video-id branch forgets its bucket.
FailedAfterNoVideoIdDropped(pos) == failed_additions

\* add_songs_to_playlist, the result has no video id: the failed bucket.
FailedAfterNoVideoId(pos) == AppendTo(failed_additions, pos)

\* Variant: a result without a video id is taken for no result.
ResolveNoIdAsNotFound(r, pos) ==
    /\ resolved' = Append(resolved, r.videoId)
    /\ IF r = None \/ r.videoId = NoVideoId
       THEN /\ not_found' = AppendTo(not_found, pos)
            /\ pc' = "loop"
            /\ UNCHANGED <<video_id, retries, failed_additions, registry_at_call>>
       ELSE /\ video_id' = r.videoId
            /\ retries' = 0
            /\ registry_at_call' = unique_songs
            /\ pc' = "add_item"
            /\ UNCHANGED <<failed_additions, not_found>>
    /\ UNCHANGED <<status, unique_songs, successful_additions, duplicates,
                   exit_code, raised>>

\* add_songs_to_playlist, after search_song returned r for position pos:
\* not found, no video id, or the call of add_item_to_playlist with retries=0.
Resolve(r, pos) ==
    /\ resolved' = Append(resolved, r.videoId)
    /\ IF r = None
       THEN /\ not_found' = AppendTo(not_found, pos)
            /\ pc' = "loop"
            /\ UNCHANGED <<video_id, retries, failed_additions, registry_at_call>>
       ELSE IF r.videoId = NoVideoId
       THEN /\ failed_additions' = FailedAfterNoVideoId(pos)
            /\ pc' = "loop"
            /\ UNCHANGED <<video_id, retries, not_found, registry_at_call>>
       ELSE /\ video_id' = r.videoId
            /\ retries' = 0
            /\ registry_at_call' = unique_songs
            /\ pc' = "add_item"
            /\ UNCHANGED <<failed_additions, not_found>>
    /\ UNCHANGED <<status, unique_songs, successful_additions, duplicates,
                   exit_code, raised>>

\* The for loop takes the next query and search_song issues the songs search.
\* An exception of yt.search is caught nowhere below main, which exits.
SearchSongs ==
    /\ pc = "loop"
    /\ idx < total_queries
    /\ idx' = idx + 1
    /\ search_count' = search_count + 1
    /\ calls' = <<>>
    /\ sleeps' = <<>>
    /\ LET query == song_queries[idx + 1] IN
       \/ /\ Exit1("search")
          /\ UNCHANGED <<video_id, retries, status, unique_songs, buckets,
                         resolved, registry_at_call>>
       \/ \E results \in ResultLists :
            IF SongsOutcome(results, query, perfect_match) = Fallback
            THEN /\ pc' = "search_videos"
                 /\ UNCHANGED <<video_id, retries, status, unique_songs, buckets,
                                exit_code, resolved, raised, registry_at_call>>
            ELSE Resolve(SongsOutcome(results, query, perfect_match), idx + 1)
    /\ UNCHANGED <<config, playlist_id, add_count, confirmed, search_log>>

\* search_song falls back to the videos search.
SearchVideos ==
    /\ pc = "search_videos"
    /\ search_count' = search_count + 1
    /\ LET query == song_queries[idx] IN
       \/ /\ Exit1("search")
          /\ UNCHANGED <<video_id, retries, status, unique_songs, buckets,
                         resolved, registry_at_call>>
       \/ \E video_results \in ResultLists :
            Resolve(VideosOutcome(video_results, query, perfect_match), idx)
    /\ UNCHANGED <<config, playlist_id, idx, add_count, confirmed, calls, sleeps,
                   search_log>>

----------------------------------------------------------------------------
\* Variant: the registry check ignores allow_duplicates.
IsDuplicateIgnoringFlag == video_id \in unique_songs

\* add_item_to_playlist: the registry check before the remote call.
IsDuplicate == video_id \in unique_songs /\ ~allow_duplicates

\* The duplicates argument of yt.add_playlist_items.
DuplicatesFlag == allow_duplicates

\* Variant: only an explicit STATUS_SUCCEEDED counts as success.
StatusOfStrict(response) ==
    IF response = STATUS_SUCCEEDED THEN "success" ELSE "failure"

\* The status returned for a response that was returned without an exception.
StatusOf(response) ==
    IF response = STATUS_SUCCEEDED THEN "success"
    ELSE IF response # EMPTY_RESPONSE THEN "success"
    ELSE "failure"

\* Variant: the registry is never updated.
RegistryAfterNoAdd(response) == unique_songs

\* Variant: every non-empty response registers the id.
RegistryAfterAnyResponse(response) ==
    IF response # EMPTY_RESPONSE THEN unique_songs \cup {video_id}
    ELSE unique_songs

\* Variant: every id that was sent is registered.
RegistryAfterAttempt(response) == unique_songs \cup {video_id}

\* The registry after a returned response.
RegistryAfter(response) ==
    IF response = STATUS_SUCCEEDED THEN unique_songs \cup {video_id}
    ELSE unique_songs

\* Variant: every exception is taken for a conflict.
IsConflictAnyError(response) == response \notin Returned

\* The exception text holds "http 409: conflict".
IsConflict(response) == response = HTTP_409

\* Variant: off by one, one retry too many.
CanRetryOffByOne == retries <= max_retries

\* The retry budget test.
CanRetry == retries < max_retries

\* Variant: constant instead of linear backoff.
WaitTimeConstant(r) == retry_delay

\* wait_time of retry number r.
WaitTime(r) == retry_delay * r

\* One activation of add_item_to_playlist: the duplicate check, one remote call,
\* and the handling of its response or exception; on a 409 within budget it
\* sleeps and calls itself with retries + 1.
AddItem ==
    /\ pc = "add_item"
    /\ IF IsDuplicate
       THEN /\ status' = "duplicate"
            /\ pc' = "bucket"
            /\ UNCHANGED <<retries, unique_songs, calls, sleeps, add_count,
                           confirmed>>
       ELSE \E response \in AddResponses :
            /\ calls' = Append(calls, [pos |-> idx, video_id |-> video_id,
                                       duplicates |-> DuplicatesFlag,
                                       response |-> response])
            /\ add_count' = add_count + 1
            /\ confirmed' = IF response = STATUS_SUCCEEDED
                            THEN confirmed \cup {idx} ELSE confirmed
            /\ IF response \in Returned
               THEN /\ unique_songs' = RegistryAfter(response)
                    /\ status' = StatusOf(response)
                    /\ pc' = "bucket"
                    /\ UNCHANGED <<retries, sleeps>>
               ELSE IF IsConflict(response) /\ CanRetry
               THEN /\ retries' = retries + 1
                    /\ sleeps' = Append(sleeps, WaitTime(retries + 1))
                    /\ pc' = "add_item"
                    /\ UNCHANGED <<status, unique_songs>>
               ELSE /\ status' = "failure"
                    /\ pc' = "bucket"
                    /\ UNCHANGED <<retries, unique_songs, sleeps>>
    /\ UNCHANGED <<config, playlist_id, idx, video_id, buckets, exit_code,
                   search_count, resolved, raised, registry_at_call, search_log>>

\* add_songs_to_playlist maps the returned status to its bucket.
BucketStatus ==
    /\ pc = "bucket"
    /\ IF status = "success"
       THEN /\ successful_additions' = AppendTo(successful_additions, idx)
            /\ UNCHANGED <<duplicates, failed_additions>>
       ELSE IF status = "duplicate"
       THEN /\ duplicates' = AppendTo(duplicates, idx)
            /\ UNCHANGED <<successful_additions, failed_additions>>
       ELSE /\ failed_additions' = AppendTo(failed_additions, idx)
            /\ UNCHANGED <<successful_additions, duplicates>>
    /\ pc' = "loop"
    /\ UNCHANGED <<config, playlist_id, idx, video_id, retries, status,
                   unique_songs, not_found, exit_code, logs, raised>>

\* The loop is over: the report is returned and main goes on to the summary.
ReturnReport ==
    /\ pc = "loop"
    /\ idx = total_queries
    /\ pc' = "returned"
    /\ exit_code' = 0
    /\ UNCHANGED <<config, playlist_id, idx, video_id, retries, status,
                   unique_songs, buckets, logs, raised>>

\* The report object.
report ==
    [total |-> total_queries,
     successful |-> successful_additions,
     failed |-> failed_additions,
     not_found |-> not_found,
     duplicates |-> duplicates]

Next ==
    \/ ReadSongQueries
    \/ InitializeYtmusic
    \/ CreatePlaylist
    \/ SearchSongs
    \/ SearchVideos
    \/ AddItem
    \/ BucketStatus
    \/ ReturnReport

Spec == Init /\ [][Next]_vars

----------------------------------------------------------------------------
\* search_song called on its own with one query, in either mode.
InitSearch ==
    /\ pc = "search_song"
    /\ song_queries \in {<<q>> : q \in QueryTexts}
    /\ perfect_match \in BOOLEAN
    /\ idx = 1
    /\ allow_duplicates = FALSE
    /\ max_retries = 0
    /\ retry_delay \in RetryDelays
    /\ playlist_id = "PL"
    /\ video_id = NoVideoId
    /\ retries = 0
    /\ status = ""
    /\ unique_songs = {}
    /\ successful_additions = <<>>
    /\ failed_additions = <<>>
    /\ not_found = <<>>
    /\ duplicates = <<>>
    /\ exit_code = -1
    /\ search_count = 0
    /\ add_count = 0
    /\ resolved = <<>>
    /\ confirmed = {}
    /\ calls = <<>>
    /\ sleeps = <<>>
    /\ raised = ""
    /\ registry_at_call = {}
    /\ searches = <<>>
    /\ result = Fallback

\* One yt.search call of search_song, as recorded.
SearchCall(filter, results) ==
    [text |-> formatted_query(song_queries[idx], perfect_match),
     filter |-> filter,
     results |-> results]

\* search_song: the songs search and what follows it.
SearchSongSongs ==
    /\ pc = "search_song"
    /\ search_count' = search_count + 1
    /\ \/ /\ pc' = "search_song_raised"
          /\ raised' = "search"
          /\ searches' = Append(searches, SearchCall("songs", <<>>))
          /\ UNCHANGED result
       \/ \E results \in SearchResultLists :
            LET r == SongsOutcome(results, song_queries[idx], perfect_match) IN
            /\ searches' = Append(searches, SearchCall("songs", results))
            /\ UNCHANGED raised
            /\ IF r = Fallback
               THEN pc' = "search_song_videos" /\ UNCHANGED result
               ELSE pc' = "search_song_returned" /\ result' = r
    /\ UNCHANGED <<config, playlist_id, idx, video_id, retries, status,
                   unique_songs, buckets, exit_code, add_count, resolved,
                   confirmed, calls, sleeps, registry_at_call>>

\* search_song: the videos search and what follows it.
SearchSongVideos ==
    /\ pc = "search_song_videos"
    /\ search_count' = search_count + 1
    /\ \/ /\ pc' = "search_song_raised"
          /\ raised' = "search"
          /\ searches' = Append(searches, SearchCall("videos", <<>>))
          /\ UNCHANGED result
       \/ \E video_results \in SearchResultLists :
            /\ searches' = Append(searches, SearchCall("videos", video_results))
            /\ result' = VideosOutcome(video_results, song_queries[idx], perfect_match)
            /\ pc' = "search_song_returned"
            /\ UNCHANGED raised
    /\ UNCHANGED <<config, playlist_id, idx, video_id, retries, status,
                   unique_songs, buckets, exit_code, add_count, resolved,
                   confirmed, calls, sleeps, registry_at_call>>

NextSearch ==
    \/ SearchSongSongs
    \/ SearchSongVideos

SpecSearch == InitSearch /\ [][NextSearch]_vars

----------------------------------------------------------------------------
\* Helpers of the properties.
Range(s) == {s[i] : i \in DOMAIN s}
Occurrences(s, x) == Cardinality({i \in DOMAIN s : s[i] = x})
Positions == 1..total_queries

Bucketed == Range(successful_additions) \cup Range(failed_additions)
            \cup Range(not_found) \cup Range(duplicates)

\* add_item_to_playlist has just returned status for position idx.
ItemReturned == pc = "bucket"

\* The outcome of a bucketed position.
Outcome(p) ==
    IF p \in Range(successful_additions) THEN "success"
    ELSE IF p \in Range(duplicates) THEN "duplicate"
    ELSE IF p \in Range(failed_additions) THEN "failure"
    ELSE IF p \in Range(not_found) THEN "not_found"
    ELSE "none"

\* The responses of the current iteration's remote add calls, in order.
responses == [i \in DOMAIN calls |-> calls[i].response]
Backoff(k) == [i \in 1..k |-> retry_delay * i]
Conflicts(k) == [i \in 1..k |-> HTTP_409]

\* Position p resolved to an external id.
HasId(p) == p \in DOMAIN resolved /\ resolved[p] \in VideoIds
\* An earlier position than p with the same id was answered STATUS_SUCCEEDED.
ConfirmedBefore(p, id) == \E i \in 1..(p - 1) : resolved[i] = id /\ i \in confirmed
Increasing(s) == \A i, j \in DOMAIN s : i < j => s[i] < s[j]

----------------------------------------------------------------------------
\* C1: the returned report has total equal to the sum of the four bucket
\* lengths, and every input position is in exactly one bucket, exactly once.
C1_ReportPartitionsInput ==
    pc = "returned" =>
        /\ report.total = Len(report.successful) + Len(report.failed)
                          + Len(report.not_found) + Len(report.duplicates)
        /\ \A p \in Positions :
             Occurrences(report.successful, p) + Occurrences(report.failed, p)
             + Occurrences(report.not_found, p) + Occurrences(report.duplicates, p) = 1

C1_Witness ==
    /\ pc = "returned"
    /\ total_queries = MaxQueries
    /\ Len(successful_additions) = 1
    /\ Len(failed_additions) + Len(not_found) + Len(duplicates) = MaxQueries - 1
    /\ \E p \in Positions : resolved[p] = NoVideoId

\* C2: a search that raises for query idx does not abort the batch: the
\* process has not exited, and the query is in the failed bucket and not in
\* not_found.
C2_SearchErrorDoesNotAbort ==
    raised = "search" =>
        /\ pc # "exit"
        /\ exit_code # 1
        /\ idx \in Range(failed_additions)
        /\ idx \notin Range(not_found)

\* C3 (as stated): without allow_duplicates, of two queries that resolved to
\* the same external id the first one got Success and the other one, once it
\* is bucketed, Duplicate; and a query whose status is Duplicate issued no
\* remote add call.
C3_ExactlyOneSuccessOneDuplicate ==
    ~allow_duplicates =>
        /\ (ItemReturned /\ status = "duplicate") => calls = <<>>
        /\ \A i, j \in DOMAIN resolved :
             (/\ i < j
              /\ HasId(i)
              /\ resolved[i] = resolved[j]
              /\ \A k \in 1..(i - 1) : resolved[k] # resolved[i])
             => /\ Outcome(i) = "success"
                /\ j \in Bucketed => Outcome(j) = "duplicate"

\* C3 (amended): without allow_duplicates, a query with an external id is
\* Duplicate exactly when an earlier query with the same id was inserted with
\* a STATUS_SUCCEEDED response; that earlier query is Success, and the
\* Duplicate one issued no remote add call.
C3_DuplicateSuppression ==
    ~allow_duplicates =>
        /\ ItemReturned =>
             /\ status = "duplicate" <=> ConfirmedBefore(idx, video_id)
             /\ status = "duplicate" => calls = <<>> /\ idx \notin confirmed
             /\ idx \in confirmed => status = "success"
        /\ \A j \in Bucketed :
             /\ HasId(j) => (Outcome(j) = "duplicate" <=> ConfirmedBefore(j, resolved[j]))
             /\ j \in confirmed => Outcome(j) = "success"
             /\ Outcome(j) = "duplicate" => HasId(j)

C3_Witness ==
    /\ pc = "returned"
    /\ ~allow_duplicates
    /\ \E i, j \in Positions :
         /\ i < j
         /\ HasId(i)
         /\ resolved[i] = resolved[j]
         /\ i \in confirmed
         /\ Outcome(i) = "success"
         /\ Outcome(j) = "duplicate"

\* C4: when add_item_to_playlist has returned and every remote add call of
\* the track raised HTTP 409, there were max_retries + 1 calls and max_retries
\* sleeps of retry_delay*1, ..., retry_delay*max_retries in that order, the
\* status is Failure and the registry is as it was at the call.
C4_PersistentConflict ==
    (/\ ItemReturned
     /\ calls # <<>>
     /\ \A i \in DOMAIN calls : calls[i].response = HTTP_409)
    => /\ Len(calls) = max_retries + 1
       /\ sleeps = Backoff(max_retries)
       /\ status = "failure"
       /\ unique_songs = registry_at_call

C4_Witness ==
    /\ ItemReturned
    /\ max_retries = MaxRetries
    /\ responses = Conflicts(MaxRetries + 1)
    /\ Len(sleeps) = MaxRetries
    /\ status = "failure"

\* C5: when add_item_to_playlist has returned after k remote add calls that
\* raised HTTP 409 and one that returned STATUS_SUCCEEDED, k is at most
\* max_retries, there were k sleeps of retry_delay*1, ..., retry_delay*k in
\* that order, the status is Success and the external id is in the registry.
C5_ConflictsThenSuccess ==
    \A k \in 0..Len(calls) :
        (ItemReturned /\ responses = Conflicts(k) \o <<STATUS_SUCCEEDED>>)
        => /\ k <= max_retries
           /\ Len(calls) = k + 1
           /\ sleeps = Backoff(k)
           /\ status = "success"
           /\ video_id \in unique_songs

C5_Witness ==
    /\ ItemReturned
    /\ responses = Conflicts(2) \o <<STATUS_SUCCEEDED>>
    /\ sleeps = <<retry_delay, retry_delay * 2>>
    /\ status = "success"

\* C6: whenever add_item_to_playlist returns Success the external id is in the
\* registry, and at the end of the run so is the id of every query of the
\* successful bucket.
C6_SuccessIsRegistered ==
    /\ (ItemReturned /\ status = "success") => video_id \in unique_songs
    /\ pc = "returned" =>
         \A p \in Range(successful_additions) : resolved[p] \in unique_songs

\* C7: while no playlist was created no search and no remote add call has
\* been issued and the batch has not started, and a failure to initialize the
\* client or to create the playlist has ended the process with status 1.
C7_InitializationFailureIsFatal ==
    /\ playlist_id = "" =>
         /\ pc \in {"read", "initialize", "create", "exit"}
         /\ search_count = 0
         /\ add_count = 0
         /\ calls = <<>>
         /\ idx = 0
    /\ raised \in {"initialize_ytmusic", "create_playlist"} =>
         /\ pc = "exit"
         /\ exit_code = 1
         /\ playlist_id = ""

C7_Witness ==
    /\ raised = "create_playlist"
    /\ pc = "exit"
    /\ exit_code = 1
    /\ total_queries = MaxQueries

\* C8, the states: while query idx is being searched or inserted exactly the
\* positions before it are bucketed, and when the next search can be issued
\* exactly the positions up to idx are; the remote add calls of the iteration
\* are for query idx; each bucket is in input order.
C8_Ordered ==
    /\ pc \in {"search_videos", "add_item", "bucket"} => Bucketed = 1..(idx - 1)
    /\ pc \in {"loop", "returned"} => Bucketed = 1..idx
    /\ \A i \in DOMAIN calls : calls[i].pos = idx
    /\ Increasing(successful_additions)
    /\ Increasing(failed_additions)
    /\ Increasing(not_found)
    /\ Increasing(duplicates)

\* C8: queries are processed strictly in input order: every step leaves the
\* state ordered as above, the loop index only moves from idx to idx + 1 and
\* only when query idx is bucketed, a search is only issued by the step that
\* takes the next query or while that query is not yet bucketed, and a remote
\* add call is only issued for the query the loop is at.
C8_InputOrder ==
    [][/\ C8_Ordered'
       /\ idx' # idx => (pc = "loop" /\ idx' = idx + 1 /\ Bucketed = 1..idx)
       /\ search_count' # search_count =>
            (idx' \notin Bucketed /\ Bucketed = 1..(idx' - 1))
       /\ add_count' # add_count =>
            (idx' = idx /\ calls'[Len(calls')].pos = idx /\ Bucketed = 1..(idx - 1))
      ]_vars

C8_Witness ==
    /\ pc = "returned"
    /\ \E b \in {successful_additions, failed_additions, not_found, duplicates} :
         Len(b) = MaxQueries
    /\ add_count >= MaxQueries

\* C9: every remote add call carries allow_duplicates as its duplicates flag;
\* and with allow_duplicates no query is Duplicate and every insertion that
\* has returned issued at least one remote add call.
C9_DuplicatesFlagPassedThrough ==
    /\ \A i \in DOMAIN calls : calls[i].duplicates = allow_duplicates
    /\ allow_duplicates =>
         /\ duplicates = <<>>
         /\ ItemReturned => (status # "duplicate" /\ calls # <<>>)

C9_Witness ==
    /\ allow_duplicates
    /\ ItemReturned
    /\ video_id \in registry_at_call
    /\ Len(calls) > 1
    /\ calls[1].duplicates

\* C10: a remote add call that returns without raising is the last call of
\* its track, no sleep follows it, add_item_to_playlist returns at once, and
\* the outcome is Success for STATUS_SUCCEEDED, Success for any other
\* non-empty response and Failure for an empty response.
C10_OutcomeOfReturnedResponse ==
    \A i \in DOMAIN calls :
        calls[i].response \in Returned =>
            LET outcome == IF ItemReturned THEN status ELSE Outcome(idx) IN
            /\ i = Len(calls)
            /\ Len(sleeps) = i - 1
            /\ pc \in {"bucket", "loop", "returned"}
            /\ calls[i].response = STATUS_SUCCEEDED => outcome = "success"
            /\ calls[i].response = OTHER_RESPONSE => outcome = "success"
            /\ calls[i].response = EMPTY_RESPONSE => outcome = "failure"

C10_Witness ==
    /\ ItemReturned
    /\ responses = <<HTTP_409, OTHER_RESPONSE>>
    /\ Len(sleeps) = 1
    /\ status = "success"

\* C11: a remote add call that raises an error other than HTTP 409 is the
\* last call of its track whatever the retry budget left, no sleep follows
\* it, add_item_to_playlist returns Failure at once, the process does not
\* exit on it, and the registry is as it was at the call.
C11_OtherErrorFailsAtOnce ==
    \A i \in DOMAIN calls :
        calls[i].response = OTHER_ERROR =>
            /\ i = Len(calls)
            /\ Len(sleeps) = i - 1
            /\ pc \in {"bucket", "loop", "returned"}
            /\ raised = ""
            /\ (IF ItemReturned THEN status ELSE Outcome(idx)) = "failure"
            /\ unique_songs = registry_at_call

C11_Witness ==
    /\ ItemReturned
    /\ responses = <<HTTP_409, OTHER_ERROR>>
    /\ sleeps = <<retry_delay>>
    /\ retries < max_retries
    /\ status = "failure"
    /\ registry_at_call # {}

----------------------------------------------------------------------------
\* search_song on its own (SpecSearch).
SearchReturned == pc = "search_song_returned"

\* The results whose title equals the query, case ignored.
Matching(results, query) ==
    {i \in DOMAIN results : Lower(results[i].title) = Lower(query)}

Least(S) == CHOOSE i \in S : \A j \in S : i <= j

\* C12: in non-perfect mode search_song submits the query as it is, returns
\* the first songs result without a videos search when the songs search is
\* non-empty, and otherwise makes exactly one videos search and returns its
\* first result, or None when that is empty too; in either mode there are at
\* most two searches, songs first, and nothing follows a return.
C12_FirstResultOrVideos ==
    /\ Len(searches) <= 2
    /\ Len(searches) = search_count
    /\ \A i \in DOMAIN searches :
           searches[i].filter = (IF i = 1 THEN "songs" ELSE "videos")
    /\ (SearchReturned /\ ~perfect_match) =>
           /\ \A i \in DOMAIN searches : searches[i].text = song_queries[idx]
           /\ searches # <<>>
           /\ IF searches[1].results # <<>>
              THEN /\ Len(searches) = 1
                   /\ result = searches[1].results[1]
              ELSE /\ Len(searches) = 2
                   /\ result = IF searches[2].results = <<>> THEN None
                               ELSE searches[2].results[1]
    /\ SearchReturned => ~ENABLED NextSearch

C12_Witness ==
    /\ SearchReturned
    /\ ~perfect_match
    /\ Len(searches) = 2
    /\ Len(searches[2].results) = 2
    /\ searches[2].results[1] # searches[2].results[2]
    /\ result = searches[2].results[1]

----------------------------------------------------------------------------
\* The step in which search_song's result for the current query came back
\* without a video id.
NoVideoIdStep ==
    /\ Len(resolved') = Len(resolved) + 1
    /\ resolved'[Len(resolved')] = NoVideoId

\* The last query handled had no video id and the loop is at its head.
AfterNoVideoId ==
    /\ pc = "loop"
    /\ idx >= 1
    /\ Len(resolved) = idx
    /\ resolved[idx] = NoVideoId

\* C14: when the result of search_song has no video id, the query's position
\* is appended to the failed bucket and to no other, no remote add call is
\* made for it, the registry stays as it was, nothing exits, and the loop
\* goes on: its next step is the search for the next query, or the report
\* when there is none.
C14_NoVideoIdFails ==
    [][ /\ NoVideoIdStep =>
            /\ failed_additions' = Append(failed_additions, idx')
            /\ UNCHANGED <<not_found, successful_additions, duplicates>>
            /\ add_count' = add_count
            /\ calls' = <<>>
            /\ unique_songs' = unique_songs
            /\ pc' = "loop"
            /\ exit_code' = exit_code
        /\ AfterNoVideoId =>
            IF idx < total_queries
            THEN idx' = idx + 1 /\ search_count' = search_count + 1
            ELSE pc' = "returned" /\ UNCHANGED buckets
      ]_vars

C14_Witness ==
    /\ pc = "returned"
    /\ resolved = <<NoVideoId, "v1">>
    /\ failed_additions = <<1>>
    /\ not_found = <<>>
    /\ successful_additions = <<2>>
    /\ add_count = 1
    /\ unique_songs = {"v1"}

----------------------------------------------------------------------------
\* The remote add call made in this step, if one was made.
CallMade == add_count' = add_count + 1
LastCall == calls'[Len(calls')]

\* C15: the registry is empty when the run starts and never loses an
\* element; it changes only in a step of add_item_to_playlist in which
\* yt.add_playlist_items was called for the current video id and answered
\* STATUS_SUCCEEDED, and then exactly that id is added. Every other step
\* (duplicate, failure, not found, another non-empty response, a retry)
\* leaves it as it was.
C15_RegistryOnlyOnConfirmedSuccess ==
    /\ unique_songs = {}
    /\ [][ /\ unique_songs \subseteq unique_songs'
           /\ unique_songs' # unique_songs =>
                /\ pc = "add_item"
                /\ CallMade
                /\ LastCall.response = STATUS_SUCCEEDED
                /\ LastCall.video_id = video_id
                /\ unique_songs' = unique_songs \cup {video_id}
                /\ status' = "success"
           /\ (pc' = "bucket" /\ pc = "add_item"
                 /\ ~(CallMade /\ LastCall.response = STATUS_SUCCEEDED)) =>
                unique_songs' = unique_songs
         ]_vars

C15_Witness ==
    /\ ItemReturned
    /\ idx = 2
    /\ resolved = <<"v1", "v2">>
    /\ responses = <<HTTP_409, OTHER_RESPONSE>>
    /\ status = "success"
    /\ unique_songs = {"v1"}

----------------------------------------------------------------------------
\* An earlier position than p resolved to the same id and is in bucket b.
EarlierIn(b, p) ==
    \E j \in 1..(p - 1) : resolved[j] = resolved[p] /\ j \in Range(b)

\* Position p is reported, or about to be reported, as a duplicate.
IsReportedDuplicate(p) ==
    \/ p \in Range(duplicates)
    \/ ItemReturned /\ p = idx /\ status = "duplicate"

\* C16: a position is a duplicate only when allow_duplicates is false and an
\* earlier position with the same id is in the successful bucket; and when
\* add_item_to_playlist returns for an id whose earlier occurrences all
\* failed, it has made a remote call for it and does not answer duplicate.
C16_DuplicateOnlyAfterSuccess ==
    /\ \A p \in DOMAIN resolved :
          IsReportedDuplicate(p) =>
              /\ ~allow_duplicates
              /\ HasId(p)
              /\ EarlierIn(successful_additions, p)
    /\ (ItemReturned /\ EarlierIn(failed_additions, idx)
          /\ ~EarlierIn(successful_additions, idx)) =>
              /\ calls # <<>>
              /\ calls[1].video_id = resolved[idx]
              /\ status # "duplicate"

C16_Witness ==
    /\ ItemReturned
    /\ ~allow_duplicates
    /\ resolved = <<"v2", "v2">>
    /\ failed_additions = <<1>>
    /\ calls # <<>>
    /\ responses = <<EMPTY_RESPONSE>>
    /\ status = "failure"

----------------------------------------------------------------------------
\* The bounds on calls, sleeps and searches: per query at most
\* max_retries + 1 add calls and max_retries sleeps, with the retry counter
\* counting the sleeps of the query; over the run at most
\* n * (max_retries + 1) add calls and 2n searches.
ResourceBounds ==
    /\ idx <= total_queries
    /\ Len(calls) <= max_retries + 1
    /\ Len(sleeps) <= max_retries
    /\ pc \in {"add_item", "bucket"} => retries = Len(sleeps)
    /\ add_count <= idx * (max_retries + 1)
    /\ search_count <= 2 * idx

\* add_songs_to_playlist has been called.
BatchStarted == pc \in {"loop", "search_videos", "add_item", "bucket"} \/ search_count > 0

\* C17: whatever the remote calls return or raise, add_songs_to_playlist,
\* once it has been called, ends by returning its report and in no other
\* way, and stays within the bounds on add calls, sleeps and searches.
C17_ReturnsWithinBounds ==
    /\ ResourceBounds
    /\ BatchStarted => pc # "exit"

----------------------------------------------------------------------------
TypeOK ==
    /\ pc \in {"read", "initialize", "create", "loop", "search_videos",
                "add_item", "bucket", "returned", "exit"}
    /\ idx \in 0..total_queries
    /\ retries \in 0..max_retries
    /\ unique_songs \subseteq VideoIds

====
